---------------------------- MODULE Spec2Model ----------------------------
(***************************************************************************)
(* A model of the FacebookAPI client of botbuilder-adapter-facebook        *)
(* (src/packages/botbuilder-adapter-facebook/src/facebook_api.ts).         *)
(*                                                                         *)
(* JavaScript values are tagged records; template literals and string      *)
(* concatenation are \o on strings.                                        *)
(***************************************************************************)
EXTENDS Integers, Sequences, FiniteSets

VARIABLES clients, ctorLog, calls, wire, entry

vars == <<clients, ctorLog, calls, wire, entry>>

-----------------------------------------------------------------------------
(* Bounds of the model. *)

\* the number of calls issued in one behaviour
MaxCalls == 2

\* the number of entries of a query mapping
MaxQueryLen == 2

-----------------------------------------------------------------------------
(* JavaScript values. *)

Undefined == [t |-> "undefined"]

Null == [t |-> "null"]

Str(s) == [t |-> "string", s |-> s]

Num(n) == [t |-> "number", n |-> n]

\* props: the own enumerable properties, in the order they were created
Obj(props) == [t |-> "object", props |-> props]

Prop(k, v) == [k |-> k, v |-> v]

\* an Error object as the transport reports one
TransportError(code) == [t |-> "error", code |-> code]

EmptyObject == Obj(<< >>)

\* ToBoolean of the language: what `if (x)` and `!x` and `x || y` test
ToBoolean(v) ==
    CASE v.t = "undefined" -> FALSE
      [] v.t = "null"      -> FALSE
      [] v.t = "string"    -> Len(v.s) > 0
      [] v.t = "number"    -> v.n # 0
      [] OTHER             -> TRUE

Digit(d) == <<"0", "1", "2", "3", "4", "5", "6", "7", "8", "9">>[d + 1]

RECURSIVE NatToChars(_)
\* Number::toString of a non-negative integer
NatToChars(n) ==
    IF n < 10 THEN Digit(n) ELSE NatToChars(n \div 10) \o Digit(n % 10)

\* ToString of the language, as a template literal `${v}` applies it
ToString(v) ==
    CASE v.t = "undefined" -> "undefined"
      [] v.t = "null"      -> "null"
      [] v.t = "string"    -> v.s
      [] v.t = "number"    -> NatToChars(v.n)
      [] v.t = "error"     -> "Error"
      [] OTHER             -> "[object Object]"

IsNullish(v) == v.t \in {"undefined", "null"}

HasOwn(o, k) == \E i \in 1..Len(o.props) : o.props[i].k = k

\* o[k] for a value that is not null or undefined (reading a property of
\* null or undefined throws a TypeError, which the callers test with IsNullish)
GetProp(o, k) ==
    IF o.t = "object" /\ HasOwn(o, k)
    THEN o.props[CHOOSE i \in 1..Len(o.props) : o.props[i].k = k].v
    ELSE Undefined

\* a parameter default `p = d`: d replaces an argument that is undefined
DefaultParam(arg, d) == IF arg = Undefined THEN d ELSE arg

-----------------------------------------------------------------------------
(* Property enumeration order of for-in. *)

\* the i-th character of a string
CharAt(s, i) == SubSeq(s, i, i)

IsDigit(c) == c \in {"0", "1", "2", "3", "4", "5", "6", "7", "8", "9"}

DigitValue(c) == CHOOSE d \in 0..9 : Digit(d) = c

\* a < b for two digit strings of one length
DigitsLess(a, b) ==
    \E i \in 1..Len(a) :
        /\ SubSeq(a, 1, i - 1) = SubSeq(b, 1, i - 1)
        /\ DigitValue(CharAt(a, i)) < DigitValue(CharAt(b, i))

\* numeric a <= b for two canonical decimal strings
IndexLeq(a, b) ==
    \/ Len(a) < Len(b)
    \/ Len(a) = Len(b) /\ (a = b \/ DigitsLess(a, b))

\* 2^32 - 1, the first integer that is not an array index
MaxArrayLength == "4294967295"

\* an array index: the canonical decimal form of an integer below 2^32 - 1
IsArrayIndex(k) ==
    /\ Len(k) > 0
    /\ \A i \in 1..Len(k) : IsDigit(CharAt(k, i))
    /\ (Len(k) = 1 \/ CharAt(k, 1) # "0")
    /\ k # MaxArrayLength
    /\ IndexLeq(k, MaxArrayLength)

RECURSIVE SortIndexKeys(_)
\* a set of array-index keys, in ascending numeric order
SortIndexKeys(S) ==
    IF S = {} THEN << >>
    ELSE LET m == CHOOSE k \in S : \A j \in S : IndexLeq(k, j)
         IN  <<m>> \o SortIndexKeys(S \ {m})

RECURSIVE FilterKeys(_, _)
\* the keys of props, in order, that are (want) or are not array indices
FilterKeys(props, want) ==
    IF Len(props) = 0 THEN << >>
    ELSE LET rest == FilterKeys(Tail(props), want)
         IN  IF IsArrayIndex(Head(props).k) = want
             THEN <<Head(props).k>> \o rest ELSE rest

SeqRange(s) == {s[i] : i \in 1..Len(s)}

\* ForInKeys with the integer-like keys left in creation order
ForInKeysUnsorted(v) ==
    IF v.t = "object"
    THEN FilterKeys(v.props, TRUE) \o FilterKeys(v.props, FALSE)
    ELSE << >>

\* the keys `for (const key in v)` visits, in order: array indices ascending,
\* then the other keys in creation order; nothing for null and undefined
ForInKeys(v) ==
    IF v.t = "object"
    THEN SortIndexKeys(SeqRange(FilterKeys(v.props, TRUE))) \o FilterKeys(v.props, FALSE)
    ELSE << >>

-----------------------------------------------------------------------------
(* crypto.createHmac('sha256', key).update(data).digest('hex').            *)
(* The keyed hash itself is the platform's; a 16-bit keyed hash of the     *)
(* same shape (an inner hash of the message under the key, an outer hash   *)
(* of that digest under the key) stands for it.  It is a function of its   *)
(* two string arguments and of nothing else.                               *)

Alphabet ==
    <<"a", "b", "c", "d", "e", "f", "g", "h", "i", "j", "k", "l", "m", "n",
      "o", "p", "q", "r", "s", "t", "u", "v", "w", "x", "y", "z", "A", "B",
      "0", "1", "2", "3", "4", "5", "6", "7", "8", "9", ".", "/", "_", "-">>

CharCode(c) == CHOOSE i \in 1..Len(Alphabet) : Alphabet[i] = c

RECURSIVE HashChars(_, _)
HashChars(h, s) ==
    IF Len(s) = 0 THEN h
    ELSE HashChars((h * 31 + CharCode(Head(s))) % 65536, Tail(s))

HexDigit(d) ==
    <<"0", "1", "2", "3", "4", "5", "6", "7",
      "8", "9", "a", "b", "c", "d", "e", "f">>[d + 1]

\* digest('hex'): lowercase hexadecimal, fixed width
HexDigest(h) ==
    HexDigit(h \div 4096) \o HexDigit((h \div 256) % 16)
        \o HexDigit((h \div 16) % 16) \o HexDigit(h % 16)

Hmac(key, data) ==
    LET inner == HashChars(HashChars(54, key), data)
    IN  HexDigest(HashChars(HashChars(92, key), HexDigest(inner)))

-----------------------------------------------------------------------------
(* The class FacebookAPI: its pure parts. *)

DEFAULT_API_HOST == Str("graph.facebook.com")

DEFAULT_API_VERSION == Str("v3.2")

POST == Str("POST")

GET == Str("GET")

NoClient == [t |-> "none"]

\* constructor without the parameter defaults of api_host and api_version
constructorNoDefaults(token, secret, api_host, api_version) ==
    IF ~ToBoolean(token)
    THEN [threw |-> TRUE, this |-> NoClient]
    ELSE [threw |-> FALSE,
          this  |-> [t           |-> "FacebookAPI",
                     token       |-> token,
                     secret      |-> secret,
                     api_host    |-> api_host,
                     api_version |-> api_version]]

\* new FacebookAPI(token, secret, api_host, api_version): either throws
\* (no object is produced) or returns the object with its four fields
constructor(token, secret, api_host, api_version) ==
    IF ~ToBoolean(token)
    THEN [threw |-> TRUE, this |-> NoClient]
    ELSE [threw |-> FALSE,
          this  |-> [t           |-> "FacebookAPI",
                     token       |-> token,
                     secret      |-> secret,
                     api_host    |-> DefaultParam(api_host, DEFAULT_API_HOST),
                     api_version |-> DefaultParam(api_version, DEFAULT_API_VERSION)]]

\* getAppSecretProof without `|| ''`: the key is the secret as stored
getAppSecretProofNoDefault(access_token, app_secret) ==
    Hmac(ToString(app_secret), ToString(access_token))

\* getAppSecretProof(access_token, app_secret)
getAppSecretProof(access_token, app_secret) ==
    LET key == IF ToBoolean(app_secret) THEN app_secret ELSE Str("")
    IN  Hmac(ToString(key), ToString(access_token))

RECURSIVE AppendEntries(_, _, _)
\* the loop body of callAPI, run over keys in order:
\* queryString = queryString + `${key}=${query[key]}&`
AppendEntries(queryString, query, keys) ==
    IF Len(keys) = 0 THEN queryString
    ELSE AppendEntries(
             queryString \o Head(keys) \o "="
                 \o ToString(GetProp(query, Head(keys))) \o "&",
             query, Tail(keys))

\* let queryString = '?'; for (const key in query) { ... }
QueryString(query) == AppendEntries("?", query, ForInKeys(query))

HTTPS == "https://"

ACCESS_TOKEN == "access_token="

APPSECRET_PROOF ==
    "&appsecret_proof="

\* the uri template literal of callAPI
Uri(this, path, queryString, proof) ==
    HTTPS \o ToString(this.api_host) \o "/" \o ToString(this.api_version)
        \o ToString(path) \o queryString
        \o ACCESS_TOKEN \o ToString(this.token) \o APPSECRET_PROOF \o proof

\* the options object callAPI hands to request()
RequestOptions(this, path, method, payload, query) ==
    LET proof       == getAppSecretProof(this.token, this.secret)
        queryString == QueryString(DefaultParam(query, EmptyObject))
    IN  [method |-> DefaultParam(method, POST),
         json   |-> TRUE,
         body   |-> DefaultParam(payload, EmptyObject),
         uri    |-> Uri(this, path, queryString, proof)]

\* callback testing body.error before err
callbackBodyFirst(err, body) ==
    IF ~IsNullish(body) /\ ToBoolean(GetProp(body, "error"))
    THEN [kind  |-> "reject", value |-> GetProp(GetProp(body, "error"), "message")]
    ELSE IF ToBoolean(err)
    THEN [kind |-> "reject", value |-> err]
    ELSE IF IsNullish(body)
    THEN [kind |-> "throw", value |-> Undefined]
    ELSE [kind |-> "resolve", value |-> body]

\* callback rejecting with body.error instead of body.error.message
callbackRejectError(err, body) ==
    IF ToBoolean(err)
    THEN [kind |-> "reject", value |-> err]
    ELSE IF IsNullish(body)
    THEN [kind |-> "throw", value |-> Undefined]
    ELSE IF ToBoolean(GetProp(body, "error"))
    THEN [kind |-> "reject", value |-> GetProp(body, "error")]
    ELSE [kind |-> "resolve", value |-> body]

\* the callback (err, res, body) => { ... } handed to request(): which of
\* reject and resolve it calls, and with what; reading body.error of a body
\* that is null or undefined throws a TypeError out of the callback
callback(err, body) ==
    IF ToBoolean(err)
    THEN [kind |-> "reject", value |-> err]
    ELSE IF IsNullish(body)
    THEN [kind |-> "throw", value |-> Undefined]
    ELSE IF ToBoolean(GetProp(body, "error"))
    THEN [kind  |-> "reject",
          value |-> GetProp(GetProp(body, "error"),
                            "message")]
    ELSE [kind |-> "resolve", value |-> body]

-----------------------------------------------------------------------------
(* State.                                                                  *)
(*   clients[c]  the object a `new FacebookAPI(...)` produced, or NoClient *)
(*   ctorLog[c]  the arguments and result of that constructor call         *)
(*   calls[i]    the i-th callAPI invocation: its client, its promise, how *)
(*               often resolve or reject was called, its callback and the  *)
(*               response the transport delivered                          *)
(*   wire        the HTTP requests handed to request(), in order           *)
(*   entry[i]    the method the caller invoked for calls[i], as invoked    *)

ClientIds == {"api1", "api2"}

NotCalled == [t |-> "none"]

NoResponse == [t |-> "none"]

Pending == [state |-> "pending", value |-> Undefined]

\* resolve(v) / reject(v) of a promise: only the first call settles it
Settle(promise, kind, v) ==
    IF promise.state = "pending"
    THEN [state |-> IF kind = "resolve" THEN "resolved" ELSE "rejected", value |-> v]
    ELSE promise

Init ==
    /\ clients = [c \in ClientIds |-> NoClient]
    /\ ctorLog = [c \in ClientIds |-> NotCalled]
    /\ calls = << >>
    /\ wire = << >>
    /\ entry = << >>

\* let api = new FacebookAPI(token, secret, api_host, api_version)
New(c, token, secret, api_host, api_version) ==
    LET r == constructor(token, secret, api_host, api_version)
    IN  /\ ctorLog[c] = NotCalled
        /\ clients' = [clients EXCEPT ![c] = r.this]
        /\ ctorLog' = [ctorLog EXCEPT ![c] =
                          [t |-> "new", token |-> token, secret |-> secret,
                           api_host |-> api_host, api_version |-> api_version,
                           threw |-> r.threw]]
        /\ UNCHANGED <<calls, wire, entry>>

\* callAPI whose default query is one container shared by all calls and
\* filled by the query of the call before
callAPISharedQuery(c, path, method, payload, query) ==
    LET shared == IF query = Undefined /\ Len(entry) > 0
                  THEN entry[Len(entry)].query ELSE query
    IN  /\ clients[c] # NoClient
        /\ calls' = Append(calls, [client      |-> c,
                                   promise     |-> Pending,
                                   settleCalls |-> 0,
                                   callback    |-> "waiting",
                                   response    |-> NoResponse])
        /\ wire' = Append(wire, [call    |-> Len(calls) + 1,
                                 options |-> RequestOptions(clients[c], path, method,
                                                            payload, shared)])
        /\ UNCHANGED <<clients, ctorLog>>

\* api.callAPI(path, method, payload, query): builds the request, hands it
\* to request() and returns the pending promise
callAPI(c, path, method, payload, query) ==
    /\ clients[c] # NoClient
    /\ calls' = Append(calls, [client      |-> c,
                               promise     |-> Pending,
                               settleCalls |-> 0,
                               callback    |-> "waiting",
                               response    |-> NoResponse])
    /\ wire' = Append(wire, [call    |-> Len(calls) + 1,
                             options |-> RequestOptions(clients[c], path, method,
                                                        payload, query)])
    /\ UNCHANGED <<clients, ctorLog>>

\* get delegating with the method of post
getAsPost(c, path, query) ==
    /\ clients[c] # NoClient
    /\ calls' = Append(calls, [client      |-> c,
                               promise     |-> Pending,
                               settleCalls |-> 0,
                               callback    |-> "waiting",
                               response    |-> NoResponse])
    /\ wire' = Append(wire, [call    |-> Len(calls) + 1,
                             options |-> RequestOptions(clients[c], path, POST,
                                                        EmptyObject, query)])
    /\ UNCHANGED <<clients, ctorLog>>

\* api.get(path, query)
get(c, path, query) == callAPI(c, path, GET, EmptyObject, query)

\* api.post(path, body, query)
post(c, path, body, query) == callAPI(c, path, POST, body, query)

\* requestCallback that issues the request again after a transport error
requestCallbackRetry(i, err, body) ==
    LET out == callback(err, body)
        call == calls[i]
        sent == CHOOSE k \in 1..Len(wire) : wire[k].call = i
    IN  /\ call.callback = "waiting"
        /\ IF ToBoolean(err)
           THEN /\ wire' = Append(wire, wire[sent])
                /\ calls' = [calls EXCEPT ![i] =
                      [client      |-> call.client,
                       promise     |-> Settle(call.promise, out.kind, out.value),
                       settleCalls |-> call.settleCalls + 1,
                       callback    |-> "returned",
                       response    |-> [t |-> "response", err |-> err, body |-> body]]]
           ELSE /\ wire' = wire
                /\ calls' = [calls EXCEPT ![i] =
                      [client      |-> call.client,
                       promise     |-> IF out.kind = "throw" THEN call.promise
                                       ELSE Settle(call.promise, out.kind, out.value),
                       settleCalls |-> IF out.kind = "throw" THEN call.settleCalls
                                       ELSE call.settleCalls + 1,
                       callback    |-> IF out.kind = "throw" THEN "threw" ELSE "returned",
                       response    |-> [t |-> "response", err |-> err, body |-> body]]]
        /\ UNCHANGED <<clients, ctorLog, entry>>

\* the transport completes the request of calls[i] and runs its callback
requestCallback(i, err, body) ==
    LET out == callback(err, body)
        call == calls[i]
    IN  /\ call.callback = "waiting"
        /\ calls' = [calls EXCEPT ![i] =
              [client      |-> call.client,
               promise     |-> IF out.kind = "throw" THEN call.promise
                               ELSE Settle(call.promise, out.kind, out.value),
               settleCalls |-> IF out.kind = "throw" THEN call.settleCalls
                               ELSE call.settleCalls + 1,
               callback    |-> IF out.kind = "throw" THEN "threw" ELSE "returned",
               response    |-> [t |-> "response", err |-> err, body |-> body]]]
        /\ UNCHANGED <<clients, ctorLog, wire, entry>>

-----------------------------------------------------------------------------
(* The values the environment supplies. *)

TOKEN_A == Str("tkA")

TOKEN_B == Str("tkB")

SECRET_1 == Str("s1")

HOST_1 == Str("h.io")

VERSION_9 == Str("v9")

PATH_ME == Str("/me")

PATH_APP == Str("/app")

DELETE == Str("DELETE")

TextPayload == Obj(<<Prop("text", Str("hi"))>>)

\* { "id": "123" }
IdBody == Obj(<<Prop("id", Str("123"))>>)

INVALID_TOKEN == Str("Invalid token")

ErrorBody(error) == Obj(<<Prop("error", error)>>)

\* { "error": { "message": "Invalid token", "code": 190 } }
ErrMsgBody ==
    ErrorBody(Obj(<<Prop("message", INVALID_TOKEN),
                    Prop("code", Num(190))>>))

\* { "error": { "message": "" } }
ErrEmptyMsgBody == ErrorBody(Obj(<<Prop("message", Str(""))>>))

\* { "error": { "code": 190 } }
ErrNoMsgBody == ErrorBody(Obj(<<Prop("code", Num(190))>>))

\* { "error": "bad" }
ErrStringBody == ErrorBody(Str("bad"))

\* { "error": "" }
ErrFalsyBody == ErrorBody(Str(""))

ECONNREFUSED == TransportError("ECONNREFUSED")

ETIMEDOUT == TransportError("ETIMEDOUT")

\* what request() may hand to the callback as (err, body)
Response(err, body) == [err |-> err, body |-> body]

AllBodies ==
    {Undefined, Null, Str(""), IdBody, ErrMsgBody, ErrEmptyMsgBody,
     ErrNoMsgBody, ErrStringBody, ErrFalsyBody}

AllResponses == {Response(e, b) : e \in {Null, ECONNREFUSED}, b \in AllBodies}

FewResponses ==
    {Response(Null, IdBody), Response(Null, ErrMsgBody), Response(Null, ErrNoMsgBody),
     Response(Null, Undefined), Response(ECONNREFUSED, Undefined),
     Response(ETIMEDOUT, ErrMsgBody)}

QueryKeys == {"a", "01", "2", "10"}

QueryValues == {Num(12), Str("x")}

\* the sequences over S of length n without repetition
RECURSIVE Arrangements(_, _)
Arrangements(S, n) ==
    IF n = 0 THEN {<< >>}
    ELSE {<<x>> \o rest : x \in S, rest \in Arrangements(S, n - 1)}

DistinctKeys(props) ==
    \A i, j \in 1..Len(props) : props[i].k = props[j].k => i = j

\* the object literals with up to MaxQueryLen entries, keys in every order
QueryObjects ==
    {Obj(props) :
        props \in {ps \in UNION {[1..n -> {Prop(k, v) : k \in QueryKeys, v \in QueryValues}]
                                    : n \in 0..MaxQueryLen} : DistinctKeys(ps)}}

AllQueries == QueryObjects \cup {Undefined, Null}

FewQueries == {Undefined, Obj(<<Prop("a", Num(12))>>)}

-----------------------------------------------------------------------------
(* Steps: an operation on inputs drawn from the given sets, with the       *)
(* caller's invocation recorded in entry.                                  *)

NewFrom(Cs, Tokens, Secrets, Hosts, Versions) ==
    \E c \in Cs, token \in Tokens, secret \in Secrets,
       api_host \in Hosts, api_version \in Versions :
        New(c, token, secret, api_host, api_version)

CallAPIFrom(Cs, Paths, Methods, Payloads, Queries) ==
    \E c \in Cs, path \in Paths, method \in Methods,
       payload \in Payloads, query \in Queries :
        /\ callAPI(c, path, method, payload, query)
        /\ entry' = Append(entry, [op |-> "callAPI", path |-> path, method |-> method,
                                   payload |-> payload, query |-> query])

GetFrom(Cs, Paths, Queries) ==
    \E c \in Cs, path \in Paths, query \in Queries :
        /\ get(c, path, query)
        /\ entry' = Append(entry, [op |-> "get", path |-> path, query |-> query])

PostFrom(Cs, Paths, Payloads, Queries) ==
    \E c \in Cs, path \in Paths, body \in Payloads, query \in Queries :
        /\ post(c, path, body, query)
        /\ entry' = Append(entry, [op |-> "post", path |-> path, body |-> body,
                                   query |-> query])

RespondFrom(Responses) ==
    \E i \in 1..Len(calls), r \in Responses : requestCallback(i, r.err, r.body)

-----------------------------------------------------------------------------
(* Spec: one client, up to MaxCalls calls in flight at once, completed by  *)
(* the transport in any order.                                             *)

Construct == NewFrom({"api1"}, {TOKEN_A, Str("")}, {SECRET_1}, {Undefined}, {Undefined})

CallAPI ==
    /\ Len(calls) < MaxCalls
    /\ CallAPIFrom({"api1"}, {PATH_ME}, {DELETE}, {TextPayload}, FewQueries)

Get ==
    /\ Len(calls) < MaxCalls
    /\ GetFrom({"api1"}, {PATH_APP}, FewQueries)

Post ==
    /\ Len(calls) < MaxCalls
    /\ PostFrom({"api1"}, {PATH_ME}, {Undefined}, FewQueries)

Respond == RespondFrom(FewResponses)

Next == Construct \/ CallAPI \/ Get \/ Post \/ Respond

Spec == Init /\ [][Next]_vars

-----------------------------------------------------------------------------
(* SpecCall: one client and one call, over every argument and response.    *)

ConstructOne ==
    NewFrom({"api1"}, {TOKEN_A}, {Undefined, SECRET_1}, {Undefined, HOST_1}, {Undefined})

CallAPIOne ==
    /\ Len(calls) = 0
    /\ CallAPIFrom({"api1"}, {PATH_ME, PATH_APP}, {Undefined, DELETE},
                   {Undefined, TextPayload}, AllQueries)

GetOne ==
    /\ Len(calls) = 0
    /\ GetFrom({"api1"}, {PATH_ME, PATH_APP}, AllQueries)

PostOne ==
    /\ Len(calls) = 0
    /\ PostFrom({"api1"}, {PATH_ME, PATH_APP}, {Undefined, TextPayload}, AllQueries)

RespondAny == RespondFrom(AllResponses)

NextCall == ConstructOne \/ CallAPIOne \/ GetOne \/ PostOne \/ RespondAny

SpecCall == Init /\ [][NextCall]_vars

-----------------------------------------------------------------------------
(* SpecClients: two clients over every constructor argument, and their     *)
(* requests.                                                               *)

ConstructAny ==
    NewFrom(ClientIds, {Undefined, Str(""), TOKEN_A, TOKEN_B},
            {Undefined, Str(""), SECRET_1}, {Undefined, HOST_1},
            {Undefined, VERSION_9})

CallAPIAny ==
    /\ Len(calls) < MaxCalls
    /\ CallAPIFrom(ClientIds, {PATH_ME}, {Undefined}, {Undefined}, {Undefined})

NextClients == ConstructAny \/ CallAPIAny

SpecClients == Init /\ [][NextClients]_vars

-----------------------------------------------------------------------------
(* SpecWrap: the wrappers get and post next to direct calls of callAPI on  *)
(* the same arguments, up to MaxCalls calls, completed in any order.       *)

ConstructWrap == NewFrom({"api1"}, {TOKEN_B}, {Undefined}, {Undefined}, {VERSION_9})

CallAPIWrap ==
    /\ Len(calls) < MaxCalls
    /\ CallAPIFrom({"api1"}, {PATH_ME}, {GET, POST}, {EmptyObject, TextPayload},
                   FewQueries)

GetWrap ==
    /\ Len(calls) < MaxCalls
    /\ GetFrom({"api1"}, {PATH_ME}, FewQueries)

PostWrap ==
    /\ Len(calls) < MaxCalls
    /\ PostFrom({"api1"}, {PATH_ME}, {EmptyObject, TextPayload}, FewQueries)

RespondWrap ==
    RespondFrom({Response(Null, IdBody), Response(Null, ErrMsgBody),
                 Response(ECONNREFUSED, Undefined)})

NextWrap == ConstructWrap \/ CallAPIWrap \/ GetWrap \/ PostWrap \/ RespondWrap

SpecWrap == Init /\ [][NextWrap]_vars

-----------------------------------------------------------------------------
(* Properties. *)

CallIds == 1..Len(calls)

Completed(i) == calls[i].response # NoResponse

ERROR == "error"

MESSAGE == "message"

\* the body is an object whose `error` is an object with a `message`
HasErrorMessage(body) ==
    /\ body.t = "object"
    /\ HasOwn(body, ERROR)
    /\ GetProp(body, ERROR).t = "object"
    /\ HasOwn(GetProp(body, ERROR), MESSAGE)

\* C1: every callAPI invocation whose transport has completed (with an
\* error, an application-error body, a success body or no body at all) has
\* settled its promise, and resolve/reject was called exactly once.
C1_SettledExactlyOnce ==
    \A i \in CallIds :
        Completed(i) =>
            /\ calls[i].promise.state \in {"resolved", "rejected"}
            /\ calls[i].settleCalls = 1

\* C2: a body delivered without a transport error that carries no
\* error.message makes the call resolve to that body, unchanged.
C2_NoMessageResolves ==
    \A i \in CallIds :
        ( /\ Completed(i)
          /\ calls[i].response.err = Null
          /\ ~IsNullish(calls[i].response.body)
          /\ ~HasErrorMessage(calls[i].response.body) )
        => calls[i].promise = [state |-> "resolved", value |-> calls[i].response.body]

\* the caller's arguments of calls[i], with the defaults the wrappers and
\* the parameter list supply
ArgMethod(i) ==
    CASE entry[i].op = "get"  -> "GET"
      [] entry[i].op = "post" -> "POST"
      [] OTHER -> IF entry[i].method = Undefined THEN "POST" ELSE entry[i].method.s

ArgPayload(i) ==
    LET given == CASE entry[i].op = "get"  -> Obj(<< >>)
                   [] entry[i].op = "post" -> entry[i].body
                   [] OTHER                -> entry[i].payload
    IN  IF given = Undefined THEN Obj(<< >>) ELSE given

\* the entries of the query mapping of calls[i], as the caller wrote them
ArgQueryProps(i) ==
    IF entry[i].query.t = "object" THEN entry[i].query.props ELSE << >>

IsMapping(i) == entry[i].query.t \in {"object", "undefined"}

RECURSIVE Segments(_)
\* `key=value&` for each entry, in the order given
Segments(props) ==
    IF Len(props) = 0 THEN ""
    ELSE Head(props).k \o "=" \o ToString(Head(props).v) \o "&" \o Segments(Tail(props))

UrlPrefix(i) ==
    LET this == clients[calls[i].client]
    IN  "https://" \o this.api_host.s \o "/" \o this.api_version.s
            \o entry[i].path.s \o "?"

\* the four-character digest that ends a request URL
ProofOf(uri) == SubSeq(uri, Len(uri) - 3, Len(uri))

UrlSuffix(i) ==
    LET this == clients[calls[i].client]
    IN  "access_token=" \o this.token.s
            \o "&appsecret_proof=" \o getAppSecretProof(this.token, this.secret)

\* ps holds the entries of props with the integer-like keys first, ascending
\* by value, and then the other keys in the order of props
ForInOrdered(props, ps) ==
    /\ Len(ps) = Len(props)
    /\ SeqRange(ps) = SeqRange(props)
    /\ \A a, b \in 1..Len(ps) :
          a < b =>
            \/ IsArrayIndex(ps[a].k) /\ ~IsArrayIndex(ps[b].k)
            \/ /\ IsArrayIndex(ps[a].k) /\ IsArrayIndex(ps[b].k)
               /\ IndexLeq(ps[a].k, ps[b].k)
            \/ /\ ~IsArrayIndex(ps[a].k) /\ ~IsArrayIndex(ps[b].k)
               /\ \E x, y \in 1..Len(props) :
                     x < y /\ props[x] = ps[a] /\ props[y] = ps[b]

\* the URL of calls[i] is made of its client's configuration and its own
\* path and query, the entries of the query in for-in order
UriFromOwnArguments(i) ==
    \E ps \in Arrangements(SeqRange(ArgQueryProps(i)), Len(ArgQueryProps(i))) :
        /\ ForInOrdered(ArgQueryProps(i), ps)
        /\ wire[i].options.uri = UrlPrefix(i) \o Segments(ps) \o UrlSuffix(i)

\* C3 as stated: the URL holds one `key=value&` segment per query entry in
\* the caller's insertion order, for all keys, between the `?` and
\* `access_token=`.
C3_InsertionOrderUrl ==
    \A i \in CallIds :
        IsMapping(i) =>
            wire[i].options.uri
                = UrlPrefix(i) \o Segments(ArgQueryProps(i)) \o UrlSuffix(i)

\* C3 amended: the URL holds one `key=value&` segment per query entry, the
\* integer-like keys first in ascending numeric order and then the other
\* keys in insertion order, between the `?` and `access_token=`.
C3_ForInOrderUrl ==
    \A i \in CallIds :
        IsMapping(i) =>
            UriFromOwnArguments(i)

\* a call whose query names "10" and then "2": enumeration visits 2 first
C3_Witness ==
    \E i \in CallIds :
        /\ Len(ArgQueryProps(i)) = 2
        /\ ArgQueryProps(i)[1].k = "10"
        /\ ArgQueryProps(i)[2].k = "2"

\* C4: when the transport reports an error the call rejects with that very
\* error value, whatever body came with it.
C4_TransportErrorRejects ==
    \A i \in CallIds :
        (Completed(i) /\ calls[i].response.err.t = "error")
        => /\ calls[i].promise = [state |-> "rejected", value |-> calls[i].response.err]
           /\ calls[i].settleCalls = 1

\* a transport error delivered together with an application-error body
C4_Witness ==
    \E i \in CallIds :
        /\ Completed(i)
        /\ calls[i].response.err = ECONNREFUSED
        /\ HasErrorMessage(calls[i].response.body)
        /\ calls[i].promise.state = "rejected"

\* C5: when the transport succeeds and the body has an `error` with a
\* `message`, the call rejects with exactly that message string.
C5_ErrorMessageRejects ==
    \A i \in CallIds :
        ( /\ Completed(i)
          /\ calls[i].response.err = Null
          /\ HasErrorMessage(calls[i].response.body) )
        => /\ calls[i].promise.state = "rejected"
           /\ calls[i].promise.value
                = GetProp(GetProp(calls[i].response.body, ERROR), MESSAGE)
           /\ calls[i].promise.value.t = "string"
           /\ calls[i].settleCalls = 1

\* { error: { message: "Invalid token", code: 190 } } rejected "Invalid token"
C5_Witness ==
    \E i \in CallIds :
        /\ Completed(i)
        /\ calls[i].response.err = Null
        /\ calls[i].response.body = ErrMsgBody
        /\ calls[i].promise = [state |-> "rejected", value |-> Str("Invalid token")]

\* C6: the constructor throws exactly when the token is empty or absent and
\* then produces no object; otherwise the object holds token and secret as
\* given, and host and api_version as given or, when omitted,
\* graph.facebook.com and v3.2.
C6_ConstructorContract ==
    \A c \in ClientIds :
        ctorLog[c] # NotCalled =>
            /\ ctorLog[c].threw <=> ctorLog[c].token \in {Undefined, Str("")}
            /\ ctorLog[c].threw => clients[c] = NoClient
            /\ ~ctorLog[c].threw =>
                  /\ clients[c].token = ctorLog[c].token
                  /\ clients[c].secret = ctorLog[c].secret
                  /\ clients[c].api_host
                        = IF ctorLog[c].api_host = Undefined
                          THEN Str("graph.facebook.com") ELSE ctorLog[c].api_host
                  /\ clients[c].api_version
                        = IF ctorLog[c].api_version = Undefined
                          THEN Str("v3.2") ELSE ctorLog[c].api_version

\* one construction threw on an empty token, another succeeded on defaults
C6_Witness ==
    \E c, d \in ClientIds :
        /\ ctorLog[c] # NotCalled /\ ctorLog[c].token = Str("") /\ ctorLog[c].threw
        /\ ctorLog[d] # NotCalled /\ ~ctorLog[d].threw
        /\ ctorLog[d].api_host = Undefined /\ ctorLog[d].api_version = Undefined
        /\ clients[d].secret = Undefined

\* calls[j] is callAPI(path, method, payload, query) on the client of i
DirectCall(j, i, method, payload) ==
    /\ entry[j].op = "callAPI"
    /\ calls[j].client = calls[i].client
    /\ entry[j].path = entry[i].path
    /\ entry[j].query = entry[i].query
    /\ entry[j].method = method
    /\ entry[j].payload = payload

SameRequestAndOutcome(i, j) ==
    /\ wire[i].options = wire[j].options
    /\ calls[i].response = calls[j].response
          => calls[i].promise = calls[j].promise /\ calls[i].callback = calls[j].callback

\* C7: get(path, q) issues the request and yields the outcome of
\* callAPI(path, "GET", {}, q), and post(path, b, q) those of
\* callAPI(path, "POST", b, q), under the same transport behaviour.
C7_WrappersDelegate ==
    \A i, j \in CallIds :
        /\ (entry[i].op = "get" /\ DirectCall(j, i, Str("GET"), Obj(<< >>)))
              => SameRequestAndOutcome(i, j)
        /\ (entry[i].op = "post" /\ DirectCall(j, i, Str("POST"), entry[i].body))
              => SameRequestAndOutcome(i, j)

\* a post with a payload next to its direct callAPI, both completed alike
C7_Witness ==
    \E i, j \in CallIds :
        /\ entry[i].op = "post"
        /\ entry[i].body = TextPayload
        /\ DirectCall(j, i, Str("POST"), entry[i].body)
        /\ Completed(i)
        /\ calls[i].response = calls[j].response

\* C8: each callAPI invocation has issued exactly one HTTP request, with the
\* caller's method and payload, whatever its outcome.
C8_OneRequestPerCall ==
    \A i \in CallIds :
        /\ Cardinality({k \in 1..Len(wire) : wire[k].call = i}) = 1
        /\ \A k \in 1..Len(wire) :
              wire[k].call = i =>
                  /\ wire[k].options.method = Str(ArgMethod(i))
                  /\ wire[k].options.body = ArgPayload(i)

\* a call rejected on a transport error and one rejected on an
\* application error
C8_Witness ==
    \E i, j \in CallIds :
        /\ Completed(i) /\ calls[i].response.err # Null
        /\ Completed(j)
        /\ calls[j].response.err = Null /\ calls[j].response.body = ErrMsgBody
        /\ calls[i].promise.state = "rejected"
        /\ calls[j].promise.state = "rejected"

SameArguments(i, j) ==
    /\ calls[i].client = calls[j].client
    /\ entry[i] = entry[j]

\* C9: under any interleaving the configuration of a constructed client
\* never changes, the URL of a call is made of that configuration and the
\* call's own arguments, calls with equal arguments issue equal requests,
\* calls given equal responses have equal outcomes, and a call without a
\* response is pending.
C9_CallsIndependent ==
    /\ [][\A c \in ClientIds : clients[c] # NoClient => clients'[c] = clients[c]]_vars
    /\ [](\A i, j \in CallIds :
            /\ UriFromOwnArguments(i)
            /\ SameArguments(i, j) => wire[i].options = wire[j].options
            /\ calls[i].response = calls[j].response
                  => calls[i].promise = calls[j].promise
            /\ ~Completed(i) => calls[i].promise = Pending)

\* two calls with equal arguments in flight at once, the later one completed
\* first
C9_Witness ==
    \E i, j \in CallIds :
        /\ i < j
        /\ SameArguments(i, j)
        /\ ~Completed(i)
        /\ Completed(j)

NormalSecret(secret) == IF secret = Undefined THEN Str("") ELSE secret

\* C10: two requests of clients with the same token and the same secret,
\* an absent secret counting as the empty string, carry the same proof.
C10_ProofDeterministic ==
    \A i, j \in CallIds :
        ( /\ clients[calls[i].client].token = clients[calls[j].client].token
          /\ NormalSecret(clients[calls[i].client].secret)
                = NormalSecret(clients[calls[j].client].secret) )
        => ProofOf(wire[i].options.uri) = ProofOf(wire[j].options.uri)

\* a client without a secret and a client with the empty secret, same token
C10_Witness ==
    \E i, j \in CallIds :
        /\ calls[i].client # calls[j].client
        /\ clients[calls[i].client].token = clients[calls[j].client].token
        /\ clients[calls[i].client].secret = Undefined
        /\ clients[calls[j].client].secret = Str("")

=============================================================================
